---- MODULE Spec2Model ----
(***************************************************************************)
(* Model of data-prep/ALOS-2/alos2_proc.py: the entry point main() and the *)
(* mosaic builder build_vrt().  File names and path members are sequences  *)
(* of one-character strings; an external command is a record appended to   *)
(* the log cmds at the moment subprocess runs it.                          *)
(***************************************************************************)
EXTENDS Integers, Sequences, FiniteSets, TLC

VARIABLES
    year,          \* args.year
    srcloc,        \* scheme of args.src: "s3", "gs" or "local"
    dstloc,        \* scheme of args.dst
    src_is_dir,    \* file system: <src>/<year>/tarfiles is a directory
    dst_is_dir,    \* file system: <dst>/<year> is a directory
    pc,            \* position of the run
    error,         \* the exception that ended the run, "none" while running
    calls,         \* functions invoked so far, in order
    cmds,          \* external commands issued so far, in order
    cmd,           \* the local variable cmd of build_vrt
    listed,        \* names returned by the listing command
    tarfile_list,  \* build_vrt's tarfile_list
    it,            \* items the filtering for-loop has consumed
    layer_idx,     \* position of the layer loop in Layers
    tiles_read,    \* the tile-grid file args.tiles has been read
    probe,         \* pattern check: the name under test
    matched        \* pattern check: result of tarfile_pattern.match(probe)

vars == <<year, srcloc, dstloc, src_is_dir, dst_is_dir, pc, error, calls,
          cmds, cmd, listed, tarfile_list, it, layer_idx, tiles_read,
          probe, matched>>

----------------------------------------------------------------------------
(* Bounds *)

MaxList == 3     \* longest listing returned by the listing command
MaxEdits == 1    \* positions of a well-formed name replaced in a probe

Years == {2007, 2013, 2014, 2018, 2019, 2020}
Schemes == {"s3", "gs", "local"}
ExitCodes == {0, 1}

----------------------------------------------------------------------------
(* Characters and strings *)

Digits == {"0", "1", "2", "3", "4", "5", "6", "7", "8", "9"}
Letters == {"N", "S", "E", "W", "M", "O", "a"}
Alphabet == {"N", "S", "E", "W", "M", "O", "a", "0", "7", "_", "|", ".", "-"}

\* \w of the re module on str patterns: letters, digits and the underscore
WordChars == Letters \cup Digits \cup {"_"}

DigitChars == <<"0", "1", "2", "3", "4", "5", "6", "7", "8", "9">>

RECURSIVE str(_)
str(n) == IF n < 10 THEN <<DigitChars[n + 1]>>
          ELSE str(n \div 10) \o <<DigitChars[(n % 10) + 1]>>

\* s[k:] for 0 <= k
SliceFrom(s, k) == SubSeq(s, k + 1, Len(s))

\* s.split('_')[0]
RECURSIVE SplitFirst(_)
SplitFirst(s) == IF s = <<>> \/ Head(s) = "_" THEN <<>>
                 ELSE <<Head(s)>> \o SplitFirst(Tail(s))

\* list.remove(x): drops the first item equal to x
RECURSIVE Remove(_, _)
Remove(s, x) == IF s = <<>> THEN <<>>
                ELSE IF Head(s) = x THEN Tail(s)
                ELSE <<Head(s)>> \o Remove(Tail(s), x)

----------------------------------------------------------------------------
(* build_vrt: constants and pure parts *)

layer_suffix == [HH |-> <<"s", "l", "_", "H", "H">>,
                 HV |-> <<"s", "l", "_", "H", "V">>,
                 INC |-> <<"l", "i", "n", "c", "i">>,
                 DOY |-> <<"d", "a", "t", "e">>]

LayersSwapped == <<"HH", "INC", "HV", "DOY">>
Layers == <<"HH", "HV", "INC", "DOY">>

yy(y) == SliceFrom(str(y), 2)

postfixLate(y) == IF y < 2015 THEN <<>> ELSE <<"F", "0", "2", "D", "A", "R">>
postfix(y) == IF y < 2014 THEN <<>> ELSE <<"F", "0", "2", "D", "A", "R">>

suffix(y) == IF y < 2019 THEN <<>> ELSE <<".", "t", "i", "f">>

\* r'^[N|S]{1}\w{2}[E|W]{1}\w{3}_\w{2}_MOS' as one character class per position
tarfile_pattern ==
    <<{"N", "|", "S"}, WordChars, WordChars,
      {"E", "|", "W"}, WordChars, WordChars, WordChars,
      {"_"}, WordChars, WordChars, {"_"}, {"M"}, {"O"}, {"S"}>>

\* tarfile_pattern.match(name): anchored at the start, open at the end
Match(name) ==
    /\ Len(name) >= Len(tarfile_pattern)
    /\ \A i \in 1..Len(tarfile_pattern) : name[i] \in tarfile_pattern[i]

\* isinstance(src, str) / isinstance(src, Path), decided by main
SrcType(loc) == IF loc = "local" THEN "Path" ELSE "str"

vrt(layer, n) == [layer |-> layer, n |-> n]

tif(y, loc, tarfile, layer) ==
    [vsi |-> IF SrcType(loc) = "Path" THEN "/vsitar" ELSE "/vsitar/vsis3",
     tarfile |-> tarfile,
     member |-> SplitFirst(tarfile) \o <<"_">> \o yy(y) \o <<"_">>
                \o layer_suffix[layer] \o <<"_">> \o postfix(y) \o suffix(y)]

tif_list(y, loc, tarfiles, layer) ==
    [i \in 1..Len(tarfiles) |-> tif(y, loc, tarfiles[i], layer)]

otAllFloat(layer) == "Float32"
ot(layer) == IF layer \in {"HH", "HV", "INC"} THEN "Float32" ELSE "Int16"

\* a command line: kind is the place in the script that builds it, tool the
\* program it starts, rc the exit status once it has been run
Command(kind, tool, layer, srcs, type, rc) ==
    [kind |-> kind, tool |-> tool, layer |-> layer, srcs |-> srcs,
     ot |-> type, rc |-> rc]

NoCmd == Command("none", "-", "-", <<>>, "-", 0)

ls_cmd(loc) == IF SrcType(loc) = "str" THEN "gsutil ls" ELSE "ls"

\* subprocess.check_call / check_output: a non-zero exit raises
CheckedExitIgnored(rc) == "none"
CheckedExit(rc) == IF rc # 0 THEN "CalledProcessError" ELSE "none"

\* Path.is_dir() test of main
LocalDirCheckSkipped(is_dir) == "none"
LocalDirCheck(is_dir) == IF ~is_dir THEN "NotDir" ELSE "none"

\* what main invokes once build_vrt has returned
MainAfterBuildWarps == <<"warp_to_tiles">>
MainAfterBuild == <<>>

\* warp_to_tiles reads the tile-grid file on entry
warp_to_tiles_reads == TRUE

----------------------------------------------------------------------------
(* Inputs *)

TarGz == <<".", "t", "a", "r", ".", "g", "z">>
GoodA == <<"N", "0", "0", "E", "0", "0", "7", "_", "0", "7", "_", "M", "O", "S">>
GoodB == <<"S", "0", "7", "W", "0", "7", "0", "_", "0", "7", "_", "M", "O", "S">>
OddC == <<"|", "a", "_", "|", "0", "0", "7", "_", "a", "a", "_", "M", "O", "S">>
BadD == <<"a", "0", "0", "E", "0", "0", "7", "_", "0", "7", "_", "M", "O", "S">>
BadE == <<"N", "0", "0", "E", "0", "0", "7", "-", "0", "7", "_", "M", "O", "S">>

ListNames == {n \o TarGz : n \in {GoodA, GoodB, OddC, BadD, BadE}}

\* listings without repeated names, as a directory listing gives them
Listings ==
    UNION {{s \in [1..n -> ListNames] : \A i, j \in 1..n : s[i] = s[j] => i = j}
           : n \in 0..MaxList}

RECURSIVE Edits(_, _)
Edits(names, k) ==
    IF k = 0 THEN names
    ELSE Edits(names \cup {[n EXCEPT ![i] = c] :
                             n \in names, i \in 1..Len(GoodA), c \in Alphabet},
               k - 1)

ProbeNames ==
    Edits({GoodA}, MaxEdits)
    \cup {SubSeq(GoodA, 1, n) : n \in 0..Len(GoodA)}
    \cup ListNames

----------------------------------------------------------------------------
(* The run of main *)

Init ==
    /\ year \in Years
    /\ srcloc \in Schemes
    /\ dstloc \in Schemes
    /\ src_is_dir \in BOOLEAN
    /\ dst_is_dir \in BOOLEAN
    /\ pc = "check_src"
    /\ error = "none"
    /\ calls = <<"main">>
    /\ cmds = <<>>
    /\ cmd = NoCmd
    /\ listed = <<>>
    /\ tarfile_list = <<>>
    /\ it = 0
    /\ layer_idx = 0
    /\ tiles_read = FALSE
    /\ probe = <<>>
    /\ matched = FALSE

Raise(e) == pc' = "failed" /\ error' = e

\* main, "Check src"
CheckSrc ==
    /\ pc = "check_src"
    /\ IF srcloc \in {"s3", "gs"}
       THEN \E rc \in ExitCodes :
              /\ cmds' = Append(cmds, Command("probe_src", "gsutil ls", "-", <<>>, "-", rc))
              /\ IF CheckedExit(rc) # "none"
                 THEN Raise(CheckedExit(rc))
                 ELSE pc' = "check_dst" /\ error' = error
       ELSE /\ cmds' = cmds
            /\ IF LocalDirCheck(src_is_dir) # "none"
               THEN Raise(LocalDirCheck(src_is_dir))
               ELSE pc' = "check_dst" /\ error' = error
    /\ UNCHANGED <<year, srcloc, dstloc, src_is_dir, dst_is_dir, calls, cmd,
                   listed, tarfile_list, it, layer_idx, tiles_read, probe,
                   matched>>

\* main, "Check dst", and on success the call of build_vrt
CheckDst ==
    /\ pc = "check_dst"
    /\ IF dstloc \in {"s3", "gs"}
       THEN \E rc \in ExitCodes :
              /\ cmds' = Append(cmds, Command("probe_dst", "gsutil ls", "-", <<>>, "-", rc))
              /\ IF CheckedExit(rc) # "none"
                 THEN Raise(CheckedExit(rc)) /\ calls' = calls
                 ELSE /\ pc' = "build_vrt" /\ error' = error
                      /\ calls' = Append(calls, "build_vrt")
       ELSE /\ cmds' = cmds
            /\ IF LocalDirCheck(dst_is_dir) # "none"
               THEN Raise(LocalDirCheck(dst_is_dir)) /\ calls' = calls
               ELSE /\ pc' = "build_vrt" /\ error' = error
                    /\ calls' = Append(calls, "build_vrt")
    /\ UNCHANGED <<year, srcloc, dstloc, src_is_dir, dst_is_dir, cmd, listed,
                   tarfile_list, it, layer_idx, tiles_read, probe, matched>>

\* build_vrt: the listing command and the construction of tarfile_list
ListArchives ==
    /\ pc = "build_vrt"
    /\ \E rc \in ExitCodes, out \in Listings :
         /\ cmds' = Append(cmds, Command("list_archives", ls_cmd(srcloc), "-", <<>>, "-", rc))
         /\ IF CheckedExit(rc) # "none"
            THEN Raise(CheckedExit(rc)) /\ UNCHANGED <<listed, tarfile_list>>
            ELSE /\ pc' = "filter" /\ error' = error
                 /\ listed' = out
                 /\ tarfile_list' = out
    /\ it' = 0
    /\ UNCHANGED <<year, srcloc, dstloc, src_is_dir, dst_is_dir, calls, cmd,
                   layer_idx, tiles_read, probe, matched>>

\* build_vrt: one pass of "for tarfile in tarfile_list", which walks the
\* list by position while the body removes from the same list
FilterStep ==
    /\ pc = "filter"
    /\ it < Len(tarfile_list)
    /\ LET tarfile == tarfile_list[it + 1] IN
         tarfile_list' = IF ~Match(tarfile) THEN Remove(tarfile_list, tarfile)
                         ELSE tarfile_list
    /\ it' = it + 1
    /\ UNCHANGED <<year, srcloc, dstloc, src_is_dir, dst_is_dir, pc, error,
                   calls, cmds, cmd, listed, layer_idx, tiles_read, probe,
                   matched>>

\* build_vrt: the loop is exhausted; "if not tarfile_list: raise"
FilterEnd ==
    /\ pc = "filter"
    /\ it >= Len(tarfile_list)
    /\ IF tarfile_list = <<>>
       THEN Raise("NoTarfiles") /\ layer_idx' = layer_idx
       ELSE pc' = "layer" /\ error' = error /\ layer_idx' = 1
    /\ UNCHANGED <<year, srcloc, dstloc, src_is_dir, dst_is_dir, calls, cmds,
                   cmd, listed, tarfile_list, it, tiles_read, probe, matched>>

\* build_vrt: one pass of "for layer in [...]"
BuildLayer ==
    /\ pc = "layer"
    /\ LET layer == Layers[layer_idx]
           build == Command("build_vrt_0", "gdalbuildvrt", layer,
                            tif_list(year, srcloc, tarfile_list, layer), "-", 0)
       IN \E rc \in ExitCodes :
            /\ cmds' = Append(cmds, [build EXCEPT !.rc = rc])
            /\ IF CheckedExit(rc) # "none"
               THEN /\ Raise(CheckedExit(rc))
                    /\ cmd' = build
                    /\ layer_idx' = layer_idx
               ELSE /\ cmd' = Command("convert_vrt_1", "gdal_translate", layer,
                                      <<vrt(layer, 0), vrt(layer, 1)>>,
                                      ot(layer), 0)
                    /\ error' = error
                    /\ IF layer_idx < Len(Layers)
                       THEN pc' = "layer" /\ layer_idx' = layer_idx + 1
                       ELSE pc' = "return" /\ layer_idx' = layer_idx
    /\ UNCHANGED <<year, srcloc, dstloc, src_is_dir, dst_is_dir, calls, listed,
                   tarfile_list, it, tiles_read, probe, matched>>

\* main after build_vrt has returned
MainReturn ==
    /\ pc = "return"
    /\ pc' = "done"
    /\ calls' = calls \o MainAfterBuild
    /\ tiles_read' = IF \E i \in 1..Len(MainAfterBuild) :
                          MainAfterBuild[i] = "warp_to_tiles"
                     THEN warp_to_tiles_reads ELSE tiles_read
    /\ UNCHANGED <<year, srcloc, dstloc, src_is_dir, dst_is_dir, error, cmds,
                   cmd, listed, tarfile_list, it, layer_idx, probe, matched>>

Next ==
    \/ CheckSrc
    \/ CheckDst
    \/ ListArchives
    \/ FilterStep
    \/ FilterEnd
    \/ BuildLayer
    \/ MainReturn

Spec == Init /\ [][Next]_vars

----------------------------------------------------------------------------
(* The tarfile pattern applied to single names *)

InitPattern ==
    /\ year \in {2007}
    /\ srcloc = "local"
    /\ dstloc = "local"
    /\ src_is_dir = TRUE
    /\ dst_is_dir = TRUE
    /\ pc = "pattern"
    /\ error = "none"
    /\ calls = <<>>
    /\ cmds = <<>>
    /\ cmd = NoCmd
    /\ listed = <<>>
    /\ tarfile_list = <<>>
    /\ it = 0
    /\ layer_idx = 0
    /\ tiles_read = FALSE
    /\ probe \in ProbeNames
    /\ matched = FALSE

ApplyPattern ==
    /\ pc = "pattern"
    /\ matched' = Match(probe)
    /\ pc' = "matched"
    /\ UNCHANGED <<year, srcloc, dstloc, src_is_dir, dst_is_dir, error, calls,
                   cmds, cmd, listed, tarfile_list, it, layer_idx, tiles_read,
                   probe>>

NextPattern == ApplyPattern

SpecPattern == InitPattern /\ [][NextPattern]_vars

----------------------------------------------------------------------------
(* Properties *)

Range(s) == {s[i] : i \in 1..Len(s)}

IsBuild(c) == c.tool = "gdalbuildvrt"
IsTranslate(c) == c.tool = "gdal_translate"

\* the listing command has returned its names
ListingDone == pc = "filter" \/ layer_idx >= 1 \/ error = "NoTarfiles"

\* the filtering loop and the emptiness test that follows it are over
FilterDone == layer_idx >= 1 \/ error = "NoTarfiles"

\* the two location checks of main are over
ChecksDone == pc \notin {"check_src", "check_dst"}

\* C1: after the filtering loop the archive list is exactly the sub-list of
\* the listed names that match the tarfile pattern.
C1_FilterKeepsExactlyMatching ==
    FilterDone => tarfile_list = SelectSeq(listed, Match)

\* C2: if no listed name matches the tarfile pattern, build_vrt fails with
\* the 'No .tar.gz files found' exception and issues no gdalbuildvrt command.
C2_NoMatchFailsBeforeMosaic ==
    (ListingDone /\ \A i \in 1..Len(listed) : ~Match(listed[i]))
        => /\ \A i \in 1..Len(cmds) : ~IsBuild(cmds[i])
           /\ FilterDone => error = "NoTarfiles"

\* C3: every gdalbuildvrt command that succeeded is followed at once by a
\* gdal_translate command for the same layer, and a run in which every
\* command succeeds issues four conversion commands.
C3_ConversionIssuedPerLayer ==
    /\ \A i \in 1..Len(cmds) :
         (IsBuild(cmds[i]) /\ cmds[i].rc = 0)
             => /\ i < Len(cmds)
                /\ IsTranslate(cmds[i + 1])
                /\ cmds[i + 1].layer = cmds[i].layer
    /\ pc = "done" => Len(SelectSeq(cmds, IsTranslate)) = 4

BadLocalDir ==
    \/ srcloc = "local" /\ ~src_is_dir
    \/ dstloc = "local" /\ ~dst_is_dir

BuilderNeverStarted ==
    /\ "build_vrt" \notin Range(calls)
    /\ \A i \in 1..Len(cmds) :
         cmds[i].kind # "list_archives" /\ ~IsBuild(cmds[i])

\* C4 as stated: a local source or destination that is not a directory ends
\* the run with the 'is not a valid directory path' exception, and build_vrt
\* is never invoked.
C4_BadDirRaisesNotDir ==
    BadLocalDir => /\ BuilderNeverStarted
                   /\ ChecksDone => (pc = "failed" /\ error = "NotDir")

\* C4 amended: a local source or destination that is not a directory ends the
\* run in failure with build_vrt never invoked; the exception is 'is not a
\* valid directory path' unless the source is an s3/gs location whose listing
\* probe exited non-zero, which has ended the run before the destination is
\* looked at.
C4_BadDirNeverBuilds ==
    BadLocalDir =>
        /\ BuilderNeverStarted
        /\ ChecksDone =>
             /\ pc = "failed"
             /\ \/ error = "NotDir"
                \/ /\ srcloc # "local"
                   /\ error = "CalledProcessError"
                   /\ Len(cmds) = 1
                   /\ cmds[1].kind = "probe_src"
                   /\ cmds[1].rc # 0

C4_Witness ==
    /\ srcloc = "s3" /\ dstloc = "local" /\ ~dst_is_dir
    /\ pc = "failed" /\ error = "NotDir"
    /\ Len(cmds) = 1 /\ cmds[1].rc = 0

\* C5: a checked external command that exits non-zero is the last command of
\* the run, and the run is then in its failed state.
C5_FailedCommandEndsRun ==
    \A i \in 1..Len(cmds) :
        cmds[i].rc # 0 => /\ i = Len(cmds)
                          /\ pc = "failed"
                          /\ error = "CalledProcessError"

C5_Witness ==
    /\ pc = "failed"
    /\ Len(cmds) >= 3
    /\ cmds[Len(cmds)].kind = "build_vrt_0"
    /\ cmds[Len(cmds)].layer = "HV"
    /\ cmds[Len(cmds)].rc # 0

\* the names the naming convention of the claim admits
ConventionAccepts(name) ==
    /\ Len(name) >= 14
    /\ name[1] \in {"N", "S"}
    /\ name[2] \in Digits /\ name[3] \in Digits
    /\ name[4] \in {"E", "W"}
    /\ name[5] \in Digits /\ name[6] \in Digits /\ name[7] \in Digits
    /\ name[8] = "_"
    /\ name[9] \in Digits /\ name[10] \in Digits
    /\ SubSeq(name, 11, 14) = <<"_", "M", "O", "S">>

\* C6: the tarfile pattern accepts a name if and only if it begins with N or
\* S, two digits, E or W, three digits, an underscore, two digits and _MOS.
C6_PatternIsConvention ==
    pc = "matched" => (matched <=> ConventionAccepts(probe))

\* C7: the conversion command built for a layer targets Float32 for HH, HV
\* and INC and Int16 for DOY, reads <layer>_0.vrt and writes <layer>_1.vrt.
C7_ConversionType ==
    (Len(cmds) > 0 /\ IsBuild(cmds[Len(cmds)]) /\ cmds[Len(cmds)].rc = 0)
        => LET layer == cmds[Len(cmds)].layer IN
             /\ IsTranslate(cmd)
             /\ cmd.layer = layer
             /\ layer \in {"HH", "HV", "INC"} => cmd.ot = "Float32"
             /\ layer = "DOY" => cmd.ot = "Int16"
             /\ cmd.ot \in {"Float32", "Int16"}
             /\ cmd.srcs = <<[layer |-> layer, n |-> 0],
                             [layer |-> layer, n |-> 1]>>

C7_Witness ==
    /\ pc = "done"
    /\ IsTranslate(cmd) /\ cmd.layer = "DOY" /\ cmd.ot = "Int16"

\* the part of name before its first underscore, all of it if it has none
TileOf(name) ==
    LET stops == {k \in 1..Len(name) : name[k] = "_"}
        first == IF stops = {} THEN Len(name) + 1
                 ELSE CHOOSE k \in stops : \A j \in stops : k <= j
    IN SubSeq(name, 1, first - 1)

TwoDigitYear == <<DigitChars[((year % 100) \div 10) + 1],
                  DigitChars[(year % 10) + 1]>>

EraPostfix == <<"F", "0", "2", "D", "A", "R">>
TifExtension == <<".", "t", "i", "f">>

SuffixNamed(layer) ==
    CASE layer = "HH" -> <<"s", "l", "_", "H", "H">>
      [] layer = "HV" -> <<"s", "l", "_", "H", "V">>
      [] layer = "INC" -> <<"l", "i", "n", "c", "i">>
      [] layer = "DOY" -> <<"d", "a", "t", "e">>

\* C8: every member name given to gdalbuildvrt is
\* <tile>_<yy>_<layer suffix>_<postfix><extension>, the postfix empty exactly
\* when year < 2014 and F02DAR otherwise, the extension empty exactly when
\* year < 2019 and .tif otherwise.
C8_MemberName ==
    \A i \in 1..Len(cmds) :
        IsBuild(cmds[i]) =>
            \A k \in 1..Len(cmds[i].srcs) :
                LET t == cmds[i].srcs[k] IN
                \E p \in {<<>>, EraPostfix}, e \in {<<>>, TifExtension} :
                    /\ p = <<>> <=> year < 2014
                    /\ e = <<>> <=> year < 2019
                    /\ t.member = TileOf(t.tarfile) \o <<"_">> \o TwoDigitYear
                                  \o <<"_">> \o SuffixNamed(cmds[i].layer)
                                  \o <<"_">> \o p \o e

C8_Witness ==
    /\ year = 2014
    /\ pc = "done"
    /\ Len(cmds[Len(cmds)].srcs) >= 2

\* C9: warp_to_tiles is never invoked, the tile-grid file is never read and
\* no warp command is issued.
C9_WarpNeverRuns ==
    /\ "warp_to_tiles" \notin Range(calls)
    /\ ~tiles_read
    /\ \A i \in 1..Len(cmds) : cmds[i].tool # "gdalwarp"

C9_Witness ==
    /\ pc = "done"
    /\ "build_vrt" \in Range(calls)
    /\ Len(cmds) >= 5

\* C10: a run that completes has issued exactly one gdalbuildvrt command per
\* layer, in the order HH, HV, INC, DOY, each listing one member path per
\* archive of the filtered list, in that list's order, the tile being the
\* archive name up to its first underscore.
C10_OneMosaicPerLayer ==
    pc = "done" =>
        LET b == SelectSeq(cmds, IsBuild) IN
        /\ tarfile_list # <<>>
        /\ [k \in 1..Len(b) |-> b[k].layer] = <<"HH", "HV", "INC", "DOY">>
        /\ \A k \in 1..Len(b) :
             /\ Len(b[k].srcs) = Len(tarfile_list)
             /\ \A i \in 1..Len(tarfile_list) :
                  LET t == b[k].srcs[i]
                      tile == TileOf(tarfile_list[i])
                  IN /\ t.tarfile = tarfile_list[i]
                     /\ SubSeq(t.member, 1, Len(tile) + 1) = tile \o <<"_">>

C10_Witness ==
    /\ pc = "done"
    /\ Len(tarfile_list) >= 2
    /\ \E i \in 1..Len(tarfile_list) : TileOf(tarfile_list[i]) = <<"|", "a">>

====
